---------------------------- MODULE Spec2Model ----------------------------
(***************************************************************************)
(* Model of agentcfg.ElasticsearchFetcher (src/agentcfg/elasticsearch.go): *)
(* the background refresh loop Run / refreshCache / singlePageRefresh /    *)
(* clearScroll, and the read path Fetch, running concurrently.             *)
(***************************************************************************)
EXTENDS Integers, Sequences, FiniteSets, TLC

(***************************************************************************)
(* Bounds of the model.                                                    *)
(***************************************************************************)
\* refresh cycles one Run may start
MaxCycles == 2
\* non-empty pages the upstream returns within one cycle
MaxPages == 2

(***************************************************************************)
(* Input sets.                                                             *)
(***************************************************************************)
\* goroutines calling Fetch
Readers == {"r1"}
\* the pages of hits the upstream may return (documents are opaque names)
HitPages == {<< >>, <<"a", "b">>, <<"c">>}
\* the _scroll_id values the upstream may return ("" is a legal JSON value)
ScrollIDs == {"", "s1", "s2"}
\* HTTP status codes of a page response
Statuses == {200, 400, 401, 403, 500}
\* the queries passed to Fetch (a service name)
Queries == {"a"}

(***************************************************************************)
(* Program constants.                                                      *)
(***************************************************************************)
StatusBadRequest == 400
StatusUnauthorized == 401
StatusForbidden == 403
ErrInfrastructureNotReady == "agentcfg infrastructure is not ready"
ErrNoValidElasticsearchConfig == "no valid elasticsearch config to fetch agent config"
\* the nil slice a new ElasticsearchFetcher holds in f.cache
NilCache == << >>
\* the zero Result
EmptyResult == "none"

VARIABLES
    \* ---- ElasticsearchFetcher fields
    cache,             \* f.cache
    mu,                \* f.mu: [w: "free" | "pending" | "held", r: number of read locks]
    invalidESCfg,      \* f.invalidESCfg
    cacheInitialized,  \* f.cacheInitialized
    \* ---- the goroutine running Run
    pc,                \* position in Run / refreshCache
    scrollID,          \* refreshCache's scrollID
    buffer,            \* refreshCache's buffer
    err,               \* the error refreshCache returns
    ticker,            \* t: "none" | "idle" | "fired" | "stopped"
    runRet,            \* what Run returned: "none" while it runs
    \* ---- contexts
    cancelled,         \* the ctx passed to Run is done
    deadline,          \* the cycle's context.WithTimeout has expired
    \* ---- the goroutines calling Fetch
    rpc,               \* position in Fetch
    rq,                \* the query
    rres,              \* the Result returned
    rerr,              \* the error returned
    \* ---- observations of the run
    cycles,            \* refreshCache calls made by Run
    pages,             \* hits of the pages received in the current cycle
    request,           \* the page request the pagination loop issued last
    clears,            \* the clear-scroll requests of the current cycle: cursor and outcome
    denied,            \* a page request of the current cycle got 401 or 403
    completed,         \* some refreshCache call has returned nil
    before,            \* f.cache and f.cacheInitialized when the cycle began, until it publishes
    published,         \* f.cache has been assigned by some cycle
    rseen,             \* the slice a Fetch handed to matchAgentConfig
    rcall,             \* the flags when the Fetch was called
    rload              \* the flag values the Fetch loaded ("unread" before)

vars == <<cache, mu, invalidESCfg, cacheInitialized, pc, scrollID, buffer, err,
          ticker, runRet, cancelled, deadline, rpc, rq, rres, rerr, cycles,
          pages, request, clears, denied, completed, before, published, rseen,
          rcall, rload>>

fetcherVars == <<cache, mu, invalidESCfg, cacheInitialized>>
runVars == <<pc, scrollID, buffer, err, ticker, runRet>>
ctxVars == <<cancelled, deadline>>
fetchVars == <<rpc, rq, rres, rerr, rseen, rcall, rload>>
obsVars == <<cycles, pages, request, clears, denied, completed, before, published>>

(***************************************************************************)
(* Pure parts of the code.                                                 *)
(***************************************************************************)
\* matchAgentConfig(query, f.cache): the record of the queried service, if
\* the slice holds one (a deterministic function of its two arguments)
matchAgentConfig(query, cfgs) ==
    IF \E i \in 1..Len(cfgs) : cfgs[i] = query THEN query ELSE EmptyResult

\* faulty variant: the new buffer reuses the old snapshot with its records
newBuffer_KeepsOld(old) == old

\* buffer := make([]AgentConfig, 0, len(f.cache))
newBuffer(old) == << >>

\* for _, hit := range result.Hits.Hits { buffer = append(buffer, ...) }
appendHits(buf, hits) == buf \o hits

\* faulty variant: a page shorter than a full page ends the pagination
lastPage_ShortPage(hits) == Len(hits) < 2

\* if len(result.Hits.Hits) == 0 { break }
lastPage(hits) == Len(hits) = 0

\* resp.StatusCode >= http.StatusBadRequest
isErrorStatus(status) == status >= StatusBadRequest

\* faulty variant: only 401 counts as an invalid config
isAuthFailure_Only401(status) == status = StatusUnauthorized

\* resp.StatusCode == http.StatusUnauthorized || resp.StatusCode == http.StatusForbidden
isAuthFailure(status) == status = StatusUnauthorized \/ status = StatusForbidden

\* switch scrollID { case "": SearchRequest  default: ScrollRequest }
requestFor(sid) ==
    IF sid = "" THEN [op |-> "search", cursor |-> ""]
                ELSE [op |-> "scroll", cursor |-> sid]

\* the cycle is not paginating: before its first page request and after the loop
NoRequest == [op |-> "none", cursor |-> ""]

\* what the upstream (or the transport) may answer to a page request
Responses ==
    {[kind |-> "transport", status |-> 0, body |-> "none", hits |-> << >>, sid |-> ""]}
    \cup {[kind |-> "http", status |-> s, body |-> "none", hits |-> << >>, sid |-> ""] :
            s \in {t \in Statuses : t >= 400}}
    \cup {[kind |-> "http", status |-> s, body |-> "malformed", hits |-> << >>, sid |-> ""] :
            s \in {t \in Statuses : t < 400}}
    \cup {[kind |-> "http", status |-> s, body |-> "json", hits |-> h, sid |-> i] :
            s \in {t \in Statuses : t < 400}, h \in HitPages, i \in ScrollIDs}

\* what the upstream (or the transport) may answer to a clear-scroll request
ClearResponses ==
    {[kind |-> "transport", status |-> 0]}
    \cup {[kind |-> "http", status |-> s] : s \in {200, 401}}

\* no cycle in progress, or the cycle has published: nothing recorded about
\* its beginning
NoCycle == [cache |-> NilCache, initialized |-> FALSE]

\* the error singlePageRefresh returns for a response
pageErr(resp) ==
    IF resp.kind = "transport" THEN "transport"
    ELSE IF isErrorStatus(resp.status) THEN "status"
    ELSE IF resp.body = "malformed" THEN "decode"
    ELSE "nil"

\* faulty variant: the closure never asks Run to stop
refreshStop_IgnoresInvalid(e, invalid) == FALSE

\* faulty variant: the closure stops Run on any refresh error
refreshStop_OnAnyError(e, invalid) == e # "nil"

\* the refresh closure of Run: whether Run should return without error
refreshStop(e, invalid) == e # "nil" /\ invalid

\* a Fetch that has loaded neither flag
NoLoad == [initialized |-> "unread", invalid |-> "unread"]

\* the value an atomic.Bool's Load returned
loaded(b) == IF b THEN "true" ELSE "false"

\* the cycle's context (context.WithTimeout of Run's ctx) is done
ctxDone == cancelled \/ deadline

\* non-empty pages received in the current cycle
nonEmptyPages == Cardinality({i \in 1..Len(pages) : pages[i] # << >>})

(***************************************************************************)
(* Initial state: a fetcher from NewElasticsearchFetcher, Run about to     *)
(* execute its first statement, no Fetch in progress.                      *)
(***************************************************************************)
Init ==
    /\ cache = NilCache
    /\ mu = [w |-> "free", r |-> 0]
    /\ invalidESCfg = FALSE
    /\ cacheInitialized = FALSE
    /\ pc = "start"
    /\ scrollID = ""
    /\ buffer = << >>
    /\ err = "nil"
    /\ ticker = "none"
    /\ runRet = "none"
    /\ cancelled = FALSE
    /\ deadline = FALSE
    /\ rpc = [r \in Readers |-> "idle"]
    /\ rq = [r \in Readers |-> "a"]
    /\ rres = [r \in Readers |-> EmptyResult]
    /\ rerr = [r \in Readers |-> "nil"]
    /\ rseen = [r \in Readers |-> NilCache]
    /\ rcall = [r \in Readers |-> [initialized |-> FALSE, invalid |-> FALSE,
                                   completed |-> FALSE, denied |-> FALSE]]
    /\ rload = [r \in Readers |-> NoLoad]
    /\ cycles = 0
    /\ pages = << >>
    /\ request = NoRequest
    /\ clears = << >>
    /\ denied = FALSE
    /\ completed = FALSE
    /\ before = NoCycle
    /\ published = FALSE

(***************************************************************************)
(* Run and refreshCache.                                                   *)
(***************************************************************************)
\* refresh() is called: refreshCache's prologue
startCycle ==
    /\ pc' = "page"
    /\ scrollID' = ""
    /\ buffer' = newBuffer(cache)
    /\ err' = "nil"
    /\ deadline' = FALSE
    /\ cycles' = cycles + 1
    /\ pages' = << >>
    /\ request' = NoRequest
    /\ clears' = << >>
    /\ denied' = FALSE
    /\ before' = [cache |-> cache, initialized |-> cacheInitialized]

\* Run returns v
runReturns(v) ==
    /\ pc' = "done"
    /\ runRet' = v
    /\ ticker' = IF ticker = "none" THEN "none" ELSE "stopped"

\* the initial select: case <-ctx.Done(): return ctx.Err()
RunInitialCancelled ==
    /\ pc = "start"
    /\ cancelled
    /\ runReturns("ctxErr")
    /\ UNCHANGED <<fetcherVars, scrollID, buffer, err, ctxVars, fetchVars, obsVars>>

\* faulty variant: the first refresh waits for the first tick
RunInitialRefresh_Deferred ==
    /\ pc = "start"
    /\ ~cancelled
    /\ pc' = "wait"
    /\ ticker' = "idle"
    /\ UNCHANGED <<fetcherVars, scrollID, buffer, err, runRet, ctxVars, fetchVars,
                   obsVars>>

\* the initial select: default: refresh()
RunInitialRefresh ==
    /\ pc = "start"
    /\ ~cancelled
    /\ startCycle
    /\ UNCHANGED <<fetcherVars, ticker, runRet, cancelled, fetchVars, completed,
                   published>>

\* faulty variant: the loop returns nil when the context is done
RunWaitCancelled_ReturnsNil ==
    /\ pc = "wait"
    /\ cancelled
    /\ runReturns("nil")
    /\ UNCHANGED <<fetcherVars, scrollID, buffer, err, ctxVars, fetchVars, obsVars>>

\* the loop's select: case <-ctx.Done(): return ctx.Err()
RunWaitCancelled ==
    /\ pc = "wait"
    /\ cancelled
    /\ runReturns("ctxErr")
    /\ UNCHANGED <<fetcherVars, scrollID, buffer, err, ctxVars, fetchVars, obsVars>>

\* faulty variant: a tick starts a refresh wherever Run stands
RunWaitTick_Overlapping ==
    /\ pc \notin {"start", "done"}
    /\ ticker = "fired"
    /\ ticker' = "idle"
    /\ startCycle
    /\ UNCHANGED <<fetcherVars, runRet, cancelled, fetchVars, completed, published>>

\* the loop's select: case <-t.C: refresh()
RunWaitTick ==
    /\ pc = "wait"
    /\ ticker = "fired"
    /\ ticker' = "idle"
    /\ startCycle
    /\ UNCHANGED <<fetcherVars, runRet, cancelled, fetchVars, completed, published>>

\* result, err := f.singlePageRefresh(ctx, scrollID), and the loop body.
\* A request on a context that is done fails in the transport; otherwise the
\* upstream may answer anything.
singlePageRefresh ==
    /\ pc = "page"
    /\ \E resp \in Responses :
        /\ ctxDone => resp.kind = "transport"
        /\ resp.hits # << >> => nonEmptyPages < MaxPages
        /\ request' = requestFor(scrollID)
        /\ invalidESCfg' = (invalidESCfg \/
                (pageErr(resp) = "status" /\ isAuthFailure(resp.status)))
        /\ denied' = (denied \/ (resp.kind = "http" /\ resp.status \in {401, 403}))
        /\ IF pageErr(resp) # "nil"
           THEN /\ err' = pageErr(resp)
                /\ pc' = "errclear"
                /\ UNCHANGED <<buffer, scrollID, pages>>
           ELSE /\ buffer' = appendHits(buffer, resp.hits)
                /\ scrollID' = resp.sid
                /\ pages' = Append(pages, resp.hits)
                /\ pc' = IF lastPage(resp.hits) THEN "okclear" ELSE "page"
                /\ err' = err
    /\ UNCHANGED <<cache, mu, cacheInitialized, ticker, runRet, ctxVars, fetchVars,
                   cycles, clears, completed, before, published>>

\* faulty variant: a denied clear-scroll request marks the config invalid
clearScroll_DeniedSetsInvalid(sid) ==
    \E resp \in ClearResponses :
        /\ ctxDone => resp.kind = "transport"
        /\ clears' = Append(clears, [cursor |-> sid, outcome |-> resp])
        /\ request' = NoRequest
        /\ invalidESCfg' = (invalidESCfg \/ isAuthFailure(resp.status))

\* f.clearScroll(ctx, scrollID): the request is issued, its outcome only
\* logged. A request on a context that is done fails in the transport.
clearScroll(sid) ==
    \E resp \in ClearResponses :
        /\ ctxDone => resp.kind = "transport"
        /\ clears' = Append(clears, [cursor |-> sid, outcome |-> resp])
        /\ request' = NoRequest
        /\ invalidESCfg' = invalidESCfg

\* faulty variant: the error path returns without clearing the scroll
clearScrollOnError_Skipped ==
    /\ pc = "errclear"
    /\ pc' = "refreshed"
    /\ UNCHANGED <<fetcherVars, scrollID, buffer, err, ticker, runRet, ctxVars,
                   fetchVars, obsVars>>

\* faulty variant: the error path publishes what the buffer holds
clearScrollOnError_PublishesPartial ==
    /\ pc = "errclear"
    /\ clearScroll(scrollID)
    /\ cache' = buffer
    /\ pc' = "refreshed"
    /\ UNCHANGED <<mu, cacheInitialized, scrollID, buffer, err, ticker, runRet,
                   ctxVars, fetchVars, cycles, pages, denied, completed, before,
                   published>>

\* if err != nil { f.clearScroll(ctx, scrollID); return err }
clearScrollOnError ==
    /\ pc = "errclear"
    /\ clearScroll(scrollID)
    /\ pc' = "refreshed"
    /\ UNCHANGED <<cache, mu, cacheInitialized, scrollID, buffer, err, ticker,
                   runRet, ctxVars, fetchVars, cycles, pages, denied, completed,
                   before, published>>

\* faulty variant: the cache is marked initialized before the lock is taken
clearScrollOnSuccess_MarksInitialized ==
    /\ pc = "okclear"
    /\ clearScroll(scrollID)
    /\ cacheInitialized' = TRUE
    /\ pc' = "lock"
    /\ UNCHANGED <<cache, mu, scrollID, buffer, err, ticker, runRet, ctxVars,
                   fetchVars, cycles, pages, denied, completed, before, published>>

\* f.clearScroll(ctx, scrollID) after the loop
clearScrollOnSuccess ==
    /\ pc = "okclear"
    /\ clearScroll(scrollID)
    /\ pc' = "lock"
    /\ UNCHANGED <<cache, mu, cacheInitialized, scrollID, buffer, err, ticker,
                   runRet, ctxVars, fetchVars, cycles, pages, denied, completed,
                   before, published>>

\* f.mu.Lock(): announces the writer, which holds new readers off, and
\* waits for the read locks held to be released
Lock ==
    /\ pc = "lock"
    /\ mu.w \in {"free", "pending"}
    /\ IF mu.r = 0
       THEN mu' = [mu EXCEPT !.w = "held"] /\ pc' = "store"
       ELSE mu' = [mu EXCEPT !.w = "pending"] /\ pc' = "lock"
    /\ mu' # mu
    /\ UNCHANGED <<cache, invalidESCfg, cacheInitialized, scrollID, buffer, err,
                   ticker, runRet, ctxVars, fetchVars, obsVars>>

\* faulty variant: the assignment of the snapshot also marks the cache initialized
Publish_StoresInitialized ==
    /\ pc = "store"
    /\ cache' = buffer
    /\ published' = TRUE
    /\ cacheInitialized' = TRUE
    /\ before' = NoCycle
    /\ pc' = "unlock"
    /\ UNCHANGED <<mu, invalidESCfg, scrollID, buffer, err, ticker, runRet, ctxVars,
                   fetchVars, cycles, pages, request, clears, denied, completed>>

\* f.cache = buffer
Publish ==
    /\ pc = "store"
    /\ cache' = buffer
    /\ published' = TRUE
    /\ before' = NoCycle
    /\ pc' = "unlock"
    /\ UNCHANGED <<mu, invalidESCfg, cacheInitialized, scrollID, buffer, err,
                   ticker, runRet, ctxVars, fetchVars, cycles, pages, request,
                   clears, denied, completed>>

\* f.mu.Unlock()
Unlock ==
    /\ pc = "unlock"
    /\ mu' = [mu EXCEPT !.w = "free"]
    /\ pc' = "setinit"
    /\ UNCHANGED <<cache, invalidESCfg, cacheInitialized, scrollID, buffer, err,
                   ticker, runRet, ctxVars, fetchVars, obsVars>>

\* f.cacheInitialized.Store(true); f.last = time.Now(); return nil
StoreInitialized ==
    /\ pc = "setinit"
    /\ cacheInitialized' = TRUE
    /\ err' = "nil"
    /\ completed' = TRUE
    /\ pc' = "refreshed"
    /\ UNCHANGED <<cache, mu, invalidESCfg, scrollID, buffer, ticker, runRet,
                   ctxVars, fetchVars, cycles, pages, request, clears, denied,
                   before, published>>

\* refreshCache's locals and the observations of the cycle end with the call
endCycle ==
    /\ scrollID' = ""
    /\ buffer' = << >>
    /\ deadline' = FALSE
    /\ pages' = << >>
    /\ request' = NoRequest
    /\ clears' = << >>
    /\ before' = NoCycle

\* faulty variant: Run returns the refresh error
refreshStops_ReturnsErr ==
    /\ pc = "refreshed"
    /\ refreshStop(err, invalidESCfg)
    /\ runReturns(err)
    /\ endCycle
    /\ UNCHANGED <<fetcherVars, err, cancelled, fetchVars, cycles, denied, completed,
                   published>>

\* refresh() returned true: return nil
refreshStops ==
    /\ pc = "refreshed"
    /\ refreshStop(err, invalidESCfg)
    /\ runReturns("nil")
    /\ endCycle
    /\ UNCHANGED <<fetcherVars, err, cancelled, fetchVars, cycles, denied, completed,
                   published>>

\* refresh() returned false: t := time.NewTicker(...) after the initial
\* run, then the loop's select
refreshContinues ==
    /\ pc = "refreshed"
    /\ ~refreshStop(err, invalidESCfg)
    /\ pc' = "wait"
    /\ ticker' = IF ticker = "none" THEN "idle" ELSE ticker
    /\ err' = "nil"
    /\ endCycle
    /\ UNCHANGED <<fetcherVars, runRet, cancelled, fetchVars, cycles, denied, completed,
                   published>>

(***************************************************************************)
(* The environment of Run: its context, the ticker, the cycle's timeout.   *)
(***************************************************************************)
\* the ctx passed to Run is cancelled while Run has not returned
Cancel ==
    /\ pc # "done"
    /\ ~cancelled
    /\ cancelled' = TRUE
    /\ UNCHANGED <<fetcherVars, runVars, deadline, fetchVars, obsVars>>

\* the ticker delivers a tick into t.C (a channel of capacity one)
Tick ==
    /\ ticker = "idle"
    /\ ticker' = "fired"
    /\ UNCHANGED <<fetcherVars, pc, scrollID, buffer, err, runRet, ctxVars,
                   fetchVars, obsVars>>

\* refreshCacheTimeout elapses while the cycle is paginating
DeadlineExpires ==
    /\ pc = "page"
    /\ ~deadline
    /\ deadline' = TRUE
    /\ UNCHANGED <<fetcherVars, runVars, cancelled, fetchVars, obsVars>>

(***************************************************************************)
(* Fetch.                                                                  *)
(***************************************************************************)
\* a goroutine calls Fetch(ctx, query)
FetchCall(r) ==
    /\ rpc[r] \in {"idle", "ret"}
    /\ \E q \in Queries : rq' = [rq EXCEPT ![r] = q]
    /\ rpc' = [rpc EXCEPT ![r] = "called"]
    /\ rres' = [rres EXCEPT ![r] = EmptyResult]
    /\ rerr' = [rerr EXCEPT ![r] = "nil"]
    /\ rseen' = [rseen EXCEPT ![r] = NilCache]
    /\ rcall' = [rcall EXCEPT ![r] = [initialized |-> cacheInitialized,
                                      invalid |-> invalidESCfg,
                                      completed |-> completed,
                                      denied |-> denied]]
    /\ rload' = [rload EXCEPT ![r] = NoLoad]
    /\ UNCHANGED <<fetcherVars, runVars, ctxVars, obsVars>>

\* faulty variant: Fetch gives up on an invalid config before it looks at the cache
FetchLoadInitialized_InvalidFirst(r) ==
    /\ rpc[r] = "called"
    /\ rpc' = [rpc EXCEPT ![r] = IF cacheInitialized /\ ~invalidESCfg
                                   THEN "rlock" ELSE "chkinvalid"]
    /\ rload' = [rload EXCEPT ![r].initialized = loaded(cacheInitialized)]
    /\ UNCHANGED <<fetcherVars, runVars, ctxVars, obsVars, rq, rres, rerr, rseen, rcall>>

\* if f.cacheInitialized.Load()
FetchLoadInitialized(r) ==
    /\ rpc[r] = "called"
    /\ rpc' = [rpc EXCEPT ![r] = IF cacheInitialized THEN "rlock" ELSE "chkinvalid"]
    /\ rload' = [rload EXCEPT ![r].initialized = loaded(cacheInitialized)]
    /\ UNCHANGED <<fetcherVars, runVars, ctxVars, obsVars, rq, rres, rerr, rseen, rcall>>

\* faulty variant: the read lock is taken without waiting for the writer
FetchRLock_Unguarded(r) ==
    /\ rpc[r] = "rlock"
    /\ mu' = [mu EXCEPT !.r = @ + 1]
    /\ rpc' = [rpc EXCEPT ![r] = "locked"]
    /\ UNCHANGED <<cache, invalidESCfg, cacheInitialized, runVars, ctxVars, obsVars,
                   rq, rres, rerr, rseen, rcall, rload>>

\* f.mu.RLock(): blocks while a writer holds or awaits the lock
FetchRLock(r) ==
    /\ rpc[r] = "rlock"
    /\ mu.w = "free"
    /\ mu' = [mu EXCEPT !.r = @ + 1]
    /\ rpc' = [rpc EXCEPT ![r] = "locked"]
    /\ UNCHANGED <<cache, invalidESCfg, cacheInitialized, runVars, ctxVars, obsVars,
                   rq, rres, rerr, rseen, rcall, rload>>

\* matchAgentConfig(query, f.cache)
FetchMatch(r) ==
    /\ rpc[r] = "locked"
    /\ rseen' = [rseen EXCEPT ![r] = cache]
    /\ rres' = [rres EXCEPT ![r] = matchAgentConfig(rq[r], cache)]
    /\ rpc' = [rpc EXCEPT ![r] = "matched"]
    /\ UNCHANGED <<fetcherVars, runVars, ctxVars, obsVars, rq, rerr, rcall, rload>>

\* the deferred f.mu.RUnlock(), and return ..., nil
FetchRUnlock(r) ==
    /\ rpc[r] = "matched"
    /\ mu' = [mu EXCEPT !.r = @ - 1]
    /\ rerr' = [rerr EXCEPT ![r] = "nil"]
    /\ rpc' = [rpc EXCEPT ![r] = "ret"]
    /\ UNCHANGED <<cache, invalidESCfg, cacheInitialized, runVars, ctxVars, obsVars,
                   rq, rres, rseen, rcall, rload>>

\* faulty variant: Fetch never consults invalidESCfg
FetchLoadInvalid_AlwaysNotReady(r) ==
    /\ rpc[r] = "chkinvalid"
    /\ rerr' = [rerr EXCEPT ![r] = ErrInfrastructureNotReady]
    /\ rres' = [rres EXCEPT ![r] = EmptyResult]
    /\ rpc' = [rpc EXCEPT ![r] = "ret"]
    /\ rload' = [rload EXCEPT ![r].invalid = loaded(invalidESCfg)]
    /\ UNCHANGED <<fetcherVars, runVars, ctxVars, obsVars, rq, rseen, rcall>>

\* if f.invalidESCfg.Load() { return ErrNoValidElasticsearchConfig }
\* return ErrInfrastructureNotReady
FetchLoadInvalid(r) ==
    /\ rpc[r] = "chkinvalid"
    /\ rerr' = [rerr EXCEPT ![r] = IF invalidESCfg THEN ErrNoValidElasticsearchConfig
                                                   ELSE ErrInfrastructureNotReady]
    /\ rres' = [rres EXCEPT ![r] = EmptyResult]
    /\ rpc' = [rpc EXCEPT ![r] = "ret"]
    /\ rload' = [rload EXCEPT ![r].invalid = loaded(invalidESCfg)]
    /\ UNCHANGED <<fetcherVars, runVars, ctxVars, obsVars, rq, rseen, rcall>>

Fetch(r) ==
    \/ FetchCall(r)
    \/ FetchLoadInitialized(r)
    \/ FetchRLock(r)
    \/ FetchMatch(r)
    \/ FetchRUnlock(r)
    \/ FetchLoadInvalid(r)

refreshCache ==
    \/ singlePageRefresh
    \/ clearScrollOnError
    \/ clearScrollOnSuccess
    \/ Lock
    \/ Publish
    \/ Unlock
    \/ StoreInitialized

\* the steps of the goroutine running Run; the tick branch is taken only
\* while the bound on cycles allows another one
Run ==
    \/ RunInitialCancelled
    \/ RunInitialRefresh
    \/ RunWaitCancelled
    \/ (cycles < MaxCycles /\ RunWaitTick)
    \/ refreshCache
    \/ refreshStops
    \/ refreshContinues

Next ==
    \/ Run
    \/ Cancel
    \/ Tick
    \/ DeadlineExpires
    \/ \E r \in Readers : Fetch(r)

Spec == Init /\ [][Next]_vars

\* The goroutine running Run keeps running and its network calls return (each
\* cycle is bounded by refreshCacheTimeout); a select with several ready
\* cases picks one at random, so a case that stays ready is taken in the
\* end; the ticker keeps ticking; a Fetch that was called runs to its return.
Fairness ==
    /\ WF_vars(Run)
    /\ SF_vars(RunWaitCancelled)
    /\ WF_vars(Tick)
    /\ \A r \in Readers :
          WF_vars(FetchLoadInitialized(r) \/ FetchRLock(r) \/ FetchMatch(r)
                    \/ FetchRUnlock(r) \/ FetchLoadInvalid(r))

FairSpec == Spec /\ Fairness

(***************************************************************************)
(* The claims.                                                             *)
(***************************************************************************)
\* what a returned Fetch gave its caller, as a row of the decision table
outcome(r) ==
    IF rerr[r] = "nil" THEN "served" ELSE rerr[r]

\* the row of the decision table for two flag values
decision(initialized, invalid) ==
    IF initialized THEN "served"
    ELSE IF invalid THEN ErrNoValidElasticsearchConfig
    ELSE ErrInfrastructureNotReady

\* C1 as stated: a returned Fetch follows the decision table on the values
\* the two flags had when it was called.
C1_TableAtCallTime ==
    \A r \in Readers :
        rpc[r] = "ret" =>
            outcome(r) = decision(rcall[r].initialized, rcall[r].invalid)

\* C1 (amended): a returned Fetch follows the decision table on the flag
\* values it loaded (initialized first, invalid only after initialized was
\* false): initialized true -> the Matcher's result on the snapshot it read,
\* which is the current one while it holds the read lock, and no error;
\* false and invalid true -> ErrNoValidElasticsearchConfig; false and false
\* -> ErrInfrastructureNotReady.
C1_TableOnLoadedFlags ==
    \A r \in Readers :
        /\ rpc[r] = "matched" => rseen[r] = cache
        /\ rpc[r] \in {"matched", "ret"} /\ rload[r].initialized = "true" =>
                rres[r] = matchAgentConfig(rq[r], rseen[r])
        /\ rpc[r] = "ret" =>
            /\ rload[r].initialized # "unread"
            /\ rload[r].initialized = "true" =>
                    rerr[r] = "nil" /\ rload[r].invalid = "unread"
            /\ rload[r].initialized = "false" =>
                /\ rload[r].invalid # "unread"
                /\ rres[r] = EmptyResult
                /\ outcome(r) = decision(FALSE, rload[r].invalid = "true")

\* a Fetch called with both flags false that returned
\* ErrNoValidElasticsearchConfig: the flag changed between call and load
C1_Witness ==
    \E r \in Readers :
        /\ rpc[r] = "ret"
        /\ ~rcall[r].initialized /\ ~rcall[r].invalid
        /\ rload[r].invalid = "true"
        /\ rerr[r] = ErrNoValidElasticsearchConfig

\* C2: a Fetch called after some refresh cycle completed successfully
\* returns the Matcher's result on the snapshot it read and no error,
\* whatever the later cycles did.
C2_StalenessTolerance ==
    \A r \in Readers :
        rcall[r].completed =>
            /\ rpc[r] \notin {"idle", "chkinvalid"}
            /\ rpc[r] = "ret" =>
                    rerr[r] = "nil" /\ rres[r] = matchAgentConfig(rq[r], rseen[r])

\* a Fetch called after a success and after a later cycle set invalid, served
C2_Witness ==
    \E r \in Readers :
        /\ rpc[r] = "ret"
        /\ rcall[r].completed /\ rcall[r].invalid
        /\ rerr[r] = "nil"
        /\ rres[r] = "a"

\* C3 as stated: every Fetch called after a page request got 401 or 403
\* returns ErrNoValidElasticsearchConfig.
C3_InvalidSurfacedAlways ==
    \A r \in Readers :
        rpc[r] = "ret" /\ rcall[r].denied =>
            rerr[r] = ErrNoValidElasticsearchConfig

\* C3 (amended): a Fetch called after a page request got 401 or 403 returns
\* ErrNoValidElasticsearchConfig if no refresh cycle had succeeded before,
\* and is served from the last published snapshot if one had; the flag is
\* never cleared.
C3_InvalidSurfacedUnlessInitialized ==
    /\ denied => invalidESCfg
    /\ \A r \in Readers :
        /\ rcall[r].denied => rcall[r].invalid
        /\ rpc[r] = "ret" /\ rcall[r].denied =>
            IF rcall[r].initialized
            THEN rerr[r] = "nil"
            ELSE rerr[r] = ErrNoValidElasticsearchConfig

\* a Fetch called after a denied page request, with no snapshot published,
\* that returned after Run had stopped
C3_Witness ==
    \E r \in Readers :
        /\ rpc[r] = "ret"
        /\ rcall[r].denied /\ ~rcall[r].initialized
        /\ rerr[r] = ErrNoValidElasticsearchConfig
        /\ pc = "done"
\* C4: once a page request of a cycle got 401 or 403, invalidESCfg is true
\* and stays true, the cycle only runs to its end (the cleanup, then
\* refreshCache's return with an error), no further cycle starts, and Run
\* returns nil.
C4_DeniedStopsRun ==
    /\ [](denied =>
            /\ invalidESCfg
            /\ pc \in {"errclear", "refreshed", "done"}
            /\ pc \in {"errclear", "refreshed"} => err # "nil" /\ runRet = "none"
            /\ pc = "done" => runRet = "nil" /\ ticker \in {"none", "stopped"})
    /\ [][denied => denied' /\ invalidESCfg' /\ cycles' = cycles]_vars
    /\ (denied ~> (pc = "done" /\ runRet = "nil"))

\* Run returned nil after a denied page request in its second cycle, the
\* first cycle having succeeded
C4_Witness ==
    /\ denied
    /\ pc = "done"
    /\ runRet = "nil"
    /\ cycles = 2
    /\ completed

\* the cycle that just ended failed with a generic error
transientFailure == pc = "refreshed" /\ err # "nil" /\ ~denied

\* C5: a cycle that failed with a generic error leaves invalidESCfg false
\* and Run running, and another cycle starts unless the context is
\* cancelled first (while the model's bound on cycles allows one).
C5_TransientRetried ==
    /\ [][transientFailure =>
            /\ ~invalidESCfg /\ ~invalidESCfg'
            /\ pc' \in {"refreshed", "wait"}
            /\ runRet' = "none"]_vars
    /\ \A k \in 1..(MaxCycles - 1) :
            (transientFailure /\ cycles = k) ~> (cancelled \/ cycles = k + 1)

\* a second cycle running after a first one that failed with a generic error
C5_Witness ==
    /\ cycles = 2
    /\ pc = "page"
    /\ ~completed
    /\ ~invalidESCfg
    /\ ~cancelled

RECURSIVE Flatten(_)
\* the concatenation of a sequence of pages
Flatten(ps) == IF ps = << >> THEN << >> ELSE Head(ps) \o Flatten(Tail(ps))

\* C6: from the publish to the return of a successful cycle, the snapshot is
\* the concatenation of the pages received in that cycle, in order.
C6_SnapshotIsThisCyclesPages ==
    (pc \in {"unlock", "setinit"} \/ (pc = "refreshed" /\ err = "nil")) =>
        cache = Flatten(pages)

\* a second successful cycle that received pages of 2, 2 and 0 records
C6_Witness ==
    /\ pc = "unlock"
    /\ cycles = 2
    /\ completed
    /\ pages = << <<"a", "b">>, <<"a", "b">>, << >> >>
    /\ cache = <<"a", "b", "a", "b">>

\* C7: a Fetch holding the read lock sees the published snapshot and no
\* writer; the snapshot changes only in the publish step, to the buffer of a
\* cycle whose pagination has ended, never while a Fetch holds the read lock.
C7_ReadersSeeWholeSnapshots ==
    /\ [](\A r \in Readers :
            /\ rpc[r] \in {"locked", "matched"} => mu.w # "held" /\ mu.r > 0
            /\ rpc[r] = "matched" => rseen[r] = cache)
    /\ [][cache' # cache =>
            /\ pc = "store"
            /\ mu.w = "held" /\ mu.r = 0
            /\ pages # << >> /\ pages[Len(pages)] = << >>
            /\ cache' = buffer]_vars

\* a Fetch matching against the previous snapshot while the next one, already
\* built, waits for the lock
C7_Witness ==
    \E r \in Readers :
        /\ rpc[r] = "matched"
        /\ pc = "lock"
        /\ mu.w = "pending"
        /\ buffer # cache
        /\ rseen[r] = <<"a", "b">>

\* C8: a cycle has issued no clear-scroll request while it paginates and
\* exactly one from the cleanup on, on the error path and on the success
\* path, where it precedes the publish.
C8_OneClearScrollPerCycle ==
    /\ pc \in {"page", "errclear", "okclear"} => Len(clears) = 0
    /\ pc \in {"lock", "store", "unlock", "setinit", "refreshed"} => Len(clears) = 1

\* a cycle that failed on a continuation page and cleared the scroll once
C8_Witness ==
    /\ pc = "refreshed"
    /\ err # "nil"
    /\ Len(pages) > 0
    /\ Len(clears) = 1

\* C9: Run returns ctx.Err() only with the context done, nil only after a
\* failed cycle in which a page request was denied and invalidESCfg is true;
\* it returns nothing else, and Fetch returns none but its own two errors.
C9_RunReturnKinds ==
    /\ runRet \in {"none", "nil", "ctxErr"}
    /\ (pc = "done") = (runRet # "none")
    /\ runRet = "ctxErr" => cancelled
    /\ runRet = "nil" => err # "nil" /\ invalidESCfg /\ denied
    /\ transientFailure => ~refreshStop(err, invalidESCfg)
    /\ \A r \in Readers :
        rerr[r] \in {"nil", ErrInfrastructureNotReady, ErrNoValidElasticsearchConfig}

\* Run returned ctx.Err() after a cycle that failed with a generic error
C9_Witness ==
    /\ pc = "done"
    /\ runRet = "ctxErr"
    /\ cycles = 1
    /\ ~completed
    /\ ~invalidESCfg

\* C10 as stated: Run, having returned with its context cancelled before the
\* return, returned ctx.Err().
C10_CancelledRunReturnsCtxErr ==
    pc = "done" /\ cancelled => runRet = "ctxErr"

\* C10 (amended): once the context is cancelled Run returns in the end, and
\* it returns ctx.Err() unless a page request of the cycle in flight was
\* denied, in which case it returns nil.
C10_CancelledRunReturns ==
    /\ [](pc = "done" /\ cancelled =>
            \/ runRet = "ctxErr" /\ ~denied
            \/ runRet = "nil" /\ denied)
    /\ (cancelled ~> pc = "done")

\* Run returned ctx.Err() after its second cycle, its context cancelled
C10_Witness ==
    /\ pc = "done"
    /\ cancelled
    /\ runRet = "ctxErr"
    /\ cycles = 2
    /\ ticker = "stopped"

\* C11: Run's first step starts the first cycle, unless its context is
\* already cancelled, and then it returns ctx.Err() with no cycle run; every
\* later cycle starts from the loop's select by consuming a tick.
C11_FirstCycleAtEntryLaterOnTick ==
    /\ [](pc = "start" => cycles = 0)
    /\ [][pc = "start" /\ pc' # "start" =>
            IF cancelled
            THEN pc' = "done" /\ runRet' = "ctxErr" /\ cycles' = 0
            ELSE pc' = "page" /\ cycles' = 1]_vars
    /\ [][cycles' # cycles /\ pc # "start" =>
            /\ pc = "wait"
            /\ cycles >= 1
            /\ cycles' = cycles + 1
            /\ ticker = "fired"
            /\ ticker' = "idle"]_vars

\* the second cycle has just started, the tick that started it consumed
C11_Witness ==
    /\ cycles = 2
    /\ pc = "page"
    /\ pages = << >>
    /\ request = NoRequest
    /\ ticker = "idle"

\* C12: neither flag ever goes back to false; cacheInitialized becomes true
\* only in the step that ends a successful cycle, invalidESCfg only in a
\* page-request step.
C12_FlagsMonotone ==
    /\ [][cacheInitialized => cacheInitialized']_vars
    /\ [][invalidESCfg => invalidESCfg']_vars
    /\ [][~cacheInitialized /\ cacheInitialized' =>
            pc = "setinit" /\ pc' = "refreshed" /\ err' = "nil"]_vars
    /\ [][~invalidESCfg /\ invalidESCfg' =>
            /\ pc = "page"
            /\ pc' = "errclear"
            /\ request' = requestFor(scrollID)]_vars

\* both flags have been set: a cycle succeeded and a later page request was denied
C12_Witness ==
    /\ pc = "errclear"
    /\ cacheInitialized
    /\ invalidESCfg

\* C13 as stated: cacheInitialized and invalidESCfg are never both true.
C13_NeverBothFlags ==
    ~(cacheInitialized /\ invalidESCfg)

\* C13 (amended): cacheInitialized never changes once invalidESCfg is true,
\* so both are true only when a page request was denied in a cycle after a
\* successful one; Run is then in its last cycle or has returned.
C13_InitializedBeforeInvalid ==
    /\ [][invalidESCfg => cacheInitialized' = cacheInitialized]_vars
    /\ [](invalidESCfg => pc \in {"errclear", "refreshed", "done"})
    /\ [](cacheInitialized /\ invalidESCfg => completed /\ denied /\ cycles >= 2)

\* both flags true while Run is about to leave its second, denied cycle
C13_Witness ==
    /\ cacheInitialized
    /\ invalidESCfg
    /\ pc = "refreshed"
    /\ err = "status"
    /\ cycles = 2

\* Run is inside a refreshCache call, or has its result in hand
inCycle ==
    pc \in {"page", "errclear", "okclear", "lock", "store", "unlock", "setinit",
            "refreshed"}

\* C14: while a cycle is in flight the tick branch of the loop's select
\* cannot be taken, whether or not a tick is pending, and a cycle starts
\* only from Run's entry or the loop's select, where the previous cycle has
\* ended and left nothing behind.
C14_CyclesSerialized ==
    /\ [](inCycle => ~ENABLED RunWaitTick)
    /\ [][cycles' # cycles =>
            /\ pc \in {"start", "wait"}
            /\ pc' = "page"
            /\ pages = << >> /\ clears = << >> /\ buffer = << >>
            /\ before = NoCycle]_vars

\* a tick is pending while the second cycle is between two pages
C14_Witness ==
    /\ cycles = 2
    /\ pc = "page"
    /\ Len(pages) = 1
    /\ ticker = "fired"

\* the steps from the end of the pagination to refreshCache's return of nil
afterLoop == {"okclear", "lock", "store", "unlock", "setinit"}

\* the position that follows a position of afterLoop
nextAfterLoop(p) ==
    CASE p = "okclear" -> "lock"
      [] p = "lock" -> "store"
      [] p = "store" -> "unlock"
      [] p = "unlock" -> "setinit"
      [] p = "setinit" -> "refreshed"

\* C15: a page without records ends the pagination and nothing else does:
\* while the loop runs every page received had records and a page request
\* can be issued, a received page leaves the loop exactly when it is empty,
\* and from there the cycle only proceeds to publish the buffer collected,
\* to set cacheInitialized and to return nil, with no page request more,
\* and it does get there.
C15_PaginationEndsOnEmptyPage ==
    /\ [](pc = "page" =>
            /\ \A i \in 1..Len(pages) : pages[i] # << >>
            /\ ENABLED singlePageRefresh)
    /\ [](pc \in afterLoop \/ (pc = "refreshed" /\ err = "nil") =>
            /\ Len(pages) >= 1
            /\ pages[Len(pages)] = << >>
            /\ \A i \in 1..(Len(pages) - 1) : pages[i] # << >>
            /\ buffer = Flatten(pages))
    /\ [](pc = "refreshed" /\ err = "nil" => cacheInitialized /\ cache = buffer)
    /\ [][pages' # pages /\ pages' # << >> =>
            /\ request' # NoRequest
            /\ pc' = IF pages'[Len(pages')] = << >> THEN "okclear" ELSE "page"]_vars
    /\ [][pc' # pc /\ pc \in afterLoop =>
            /\ pc' = nextAfterLoop(pc)
            /\ pages' = pages
            /\ buffer' = buffer
            /\ request' = NoRequest
            /\ err' = "nil"]_vars
    /\ (pc = "okclear" ~> (pc = "refreshed" /\ err = "nil"))

\* the first cycle got an empty first page: an empty snapshot is published
\* and cacheInitialized is set
C15_Witness ==
    /\ pc = "refreshed"
    /\ err = "nil"
    /\ cycles = 1
    /\ pages = << << >> >>
    /\ published
    /\ cache = << >>
    /\ cacheInitialized

\* C16: invalidESCfg is true exactly when a page request of the cycle got
\* 401 or 403; a page error of any other kind (transport error, which
\* includes a done context, malformed body, other error status) fails the
\* cycle and leaves invalidESCfg alone; the clear-scroll request, whatever
\* its outcome, changes neither invalidESCfg nor the error refreshCache
\* returns, which is nil exactly when the pagination ended on an empty page.
C16_ClassifiedByPageResponses ==
    /\ [](invalidESCfg <=> denied)
    /\ [](pc \in {"errclear", "refreshed"} /\ denied => err = "status")
    /\ [](pc = "errclear" => err # "nil")
    /\ [][pc = "page" /\ pc' = "errclear" =>
            /\ err' \in {"transport", "decode", "status"}
            /\ err' \in {"transport", "decode"} => invalidESCfg' = invalidESCfg
            /\ ctxDone => err' = "transport"]_vars
    /\ [][clears' # clears /\ clears' # << >> =>
            /\ invalidESCfg' = invalidESCfg
            /\ err' = err
            /\ pc' = IF pc = "errclear" THEN "refreshed" ELSE "lock"]_vars
    /\ [](pc = "refreshed" =>
            (err = "nil" <=> (pages # << >> /\ pages[Len(pages)] = << >>)))

\* a cycle succeeded although its clear-scroll request got 401, and
\* invalidESCfg is still false
C16_Witness ==
    /\ pc = "refreshed"
    /\ err = "nil"
    /\ Len(clears) = 1
    /\ clears[1].outcome.status = StatusUnauthorized
    /\ ~invalidESCfg

\* the current cycle has failed: refreshCache is returning an error
cycleFailed == pc = "errclear" \/ (pc = "refreshed" /\ err # "nil")

\* C17: when a cycle fails, on its first page or a later one, f.cache and
\* cacheInitialized are what they were when the cycle began, they stay so
\* when Run goes on, and the records buffered by the cycle are dropped.
C17_FailedCycleKeepsSnapshot ==
    /\ [](cycleFailed =>
            /\ cache = before.cache
            /\ cacheInitialized = before.initialized)
    /\ [][cycleFailed =>
            /\ cache' = cache
            /\ cacheInitialized' = cacheInitialized
            /\ ~cycleFailed' => buffer' = << >>]_vars

\* the second cycle failed after a page with records, the snapshot of the
\* first cycle still published
C17_Witness ==
    /\ pc = "refreshed"
    /\ err # "nil"
    /\ cycles = 2
    /\ Len(pages) >= 1
    /\ cacheInitialized
    /\ cache # << >>
    /\ buffer # << >>
    /\ buffer # cache

\* a step of the pagination loop: a page request is issued and answered
pageStep == pc = "page" /\ (pc' # "page" \/ pages' # pages)

\* C18 as stated: the request of a cycle is a search exactly when no page of
\* the cycle has been received, every other request is a scroll carrying
\* the cursor the page before returned, a cycle begins without a cursor,
\* and the clear-scroll request carries the cursor of the last page received.
C18_SearchThenScrollOnCursor ==
    /\ [](pc = "page" /\ pages = << >> => scrollID = "")
    /\ [][pageStep =>
            /\ (request'.op = "search") <=> (pages = << >>)
            /\ pages # << >> => request' = [op |-> "scroll", cursor |-> scrollID]]_vars
    /\ [][clears' # clears /\ clears' # << >> =>
            clears'[Len(clears')].cursor = scrollID]_vars

\* C19: cacheInitialized is true only after f.cache has been assigned by a
\* cycle and a cycle has returned nil, so a Fetch that loaded
\* cacheInitialized as true hands matchAgentConfig a slice a cycle
\* assigned, never the nil slice of the new fetcher.
C19_PublishedBeforeInitialized ==
    /\ [](cacheInitialized => published /\ completed)
    /\ [](\A r \in Readers : rload[r].initialized = "true" => published)
    /\ [][\A r \in Readers :
            rpc[r] = "locked" /\ rpc'[r] = "matched" =>
                /\ rload[r].initialized = "true"
                /\ published
                /\ rseen'[r] = cache]_vars

\* a Fetch matched against the empty snapshot the first cycle published
C19_Witness ==
    \E r \in Readers :
        /\ rpc[r] = "matched"
        /\ rload[r].initialized = "true"
        /\ rseen[r] = << >>
        /\ published
        /\ cycles = 1

\* C20 as stated: once Run's context is cancelled no cycle starts, and with
\* a tick and the cancellation both pending at the loop's select only the
\* return of ctx.Err() can be taken.
C20_NoCycleAfterCancel ==
    /\ [][cancelled => cycles' = cycles]_vars
    /\ [](pc = "wait" /\ cancelled /\ ticker = "fired" => ~ENABLED RunWaitTick)
    /\ [][pc = "wait" /\ cancelled /\ pc' # pc =>
            pc' = "done" /\ runRet' = "ctxErr"]_vars

=============================================================================
